---- MODULE Spec2Model ----
(***************************************************************************)
(* Model of source/lexingtonma_gov.py: the Lexington, MA waste collection  *)
(* source.  Dates are proleptic Gregorian ordinals (datetime.date           *)
(* .toordinal()), strings are sequences of one-character strings.          *)
(***************************************************************************)
EXTENDS Integers, Sequences, FiniteSets, TLC

VARIABLES
    pc,                 \* position of the caller: see PcValues
    street,             \* the argument of Source(street): [given, text]
    input_street,       \* self._input_street
    streets_dict,       \* local streets_dict of the running lookup: [none, items]
    raised,             \* the exception that left the call: [kind, suggestions]
    normal_pickup_day,  \* fetch: normal_pickup_day (-1 before it is resolved)
    page,               \* _get_holiday_delays: the holiday page being parsed
    holidays,           \* fetch: holidays
    today,              \* fetch: today
    future_holidays,    \* fetch: future_holidays
    end_date,           \* fetch: end_date
    current_date,       \* fetch: current_date
    collection_date,    \* fetch: collection_date of the last loop iteration
    collections         \* fetch: collections (the dates of the Collection records)

vars == <<pc, street, input_street, streets_dict, raised, normal_pickup_day, page,
          holidays, today, future_holidays, end_date, current_date,
          collection_date, collections>>

\* ------------------------------------------------------------------ bounds

\* The calendar year the modelled runs start in: its December 25 is a Monday and
\* its December 31 a Sunday, the last day of a week.
Year0 == 2023

\* today ranges over December 24 of Year0, a Sunday, and the TodaySpan days after it.
TodaySpan == 2

\* The most body rows of a holiday table.
MaxRows == 3

\* _next_weekday is tried on StartFirst and the StartSpan days after it.
StartSpan == 30

\* ---------------------------------------------------------------- calendar

NoDate == -1

SeqToSet(s) == {s[i] : i \in 1..Len(s)}

RECURSIVE SelectSeq2(_, _)
\* A list comprehension [x for x in s if x in keep].
SelectSeq2(s, keep) ==
    IF s = <<>> THEN <<>>
    ELSE IF Head(s) \in keep THEN <<Head(s)>> \o SelectSeq2(Tail(s), keep)
         ELSE SelectSeq2(Tail(s), keep)

SetMax(S) == CHOOSE x \in S : \A y \in S : y <= x

is_leap(y) == y % 4 = 0 /\ (y % 100 # 0 \/ y % 400 = 0)

days_before_year(y) ==
    (y - 1) * 365 + ((y - 1) \div 4) - ((y - 1) \div 100) + ((y - 1) \div 400)

DAYS_IN_MONTH == <<31, 28, 31, 30, 31, 30, 31, 31, 30, 31, 30, 31>>

days_in_month(y, m) == IF m = 2 /\ is_leap(y) THEN 29 ELSE DAYS_IN_MONTH[m]

RECURSIVE days_before_month(_, _)
days_before_month(y, m) ==
    IF m = 1 THEN 0 ELSE days_before_month(y, m - 1) + days_in_month(y, m - 1)

\* date(y, m, d).toordinal()
ymd2ord(y, m, d) == days_before_year(y) + days_before_month(y, m) + d

\* date.fromordinal(n).year
year_of(n) ==
    LET n0   == n - 1
        n400 == n0 \div 146097
        r400 == n0 % 146097
        n100 == r400 \div 36524
        r100 == r400 % 36524
        n4   == r100 \div 1461
        r4   == r100 % 1461
        n1   == r4 \div 365
        y    == n400 * 400 + 1 + n100 * 100 + n4 * 4 + n1
    IN  IF n1 = 4 \/ n100 = 4 THEN y - 1 ELSE y

\* date.weekday(): Monday is 0, Sunday is 6.
weekday_of(n) == (n + 6) % 7

\* ------------------------------------------------------- _next_weekday

next_weekday_noadjust(start_date, weekday) ==
    start_date + (weekday - weekday_of(start_date))

next_weekday(start_date, weekday) ==
    LET days_ahead == weekday - weekday_of(start_date)
    IN  start_date + (IF days_ahead < 0 THEN days_ahead + 7 ELSE days_ahead)

\* ------------------------------------------------------------ exceptions

NoError == [kind |-> "none", suggestions |-> <<>>]

Raise(kind, suggestions) == [kind |-> kind, suggestions |-> suggestions]

\* street=None
NoStreet == [given |-> FALSE, text |-> <<>>]

\* streets_dict is None
NoDict == [none |-> TRUE, items |-> <<>>]

\* ------------------------------------------------------- the holiday page

\* A cell's text, cut at the separators of "%A, %B %d, %Y": the weekday name, the
\* month name, the day and the year; pad says that whitespace or newlines surround
\* the text in the document.
Cell(wd, mon, day, year, pad) ==
    [wd |-> wd, mon |-> mon, day |-> day, year |-> year, pad |-> pad]

WeekdayNames ==
    {"Monday", "Tuesday", "Wednesday", "Thursday", "Friday", "Saturday", "Sunday"}

MonthNames ==
    <<"January", "February", "March", "April", "May", "June", "July", "August",
      "September", "October", "November", "December">>

month_number(name) == CHOOSE m \in 1..12 : MonthNames[m] = name

clean_text_nostrip(cell) == cell

\* cols[1].get_text(strip=True).replace("\n", "").strip()
clean_text(cell) == [cell EXCEPT !.pad = FALSE]

\* datetime.strptime(date_str, "%A, %B %d, %Y") raises ValueError
strptime_fails(s) ==
    \/ s.pad
    \/ s.wd \notin WeekdayNames
    \/ s.mon \notin SeqToSet(MonthNames)
    \/ s.day \notin 1..31
    \/ s.year \notin 1..9999
    \/ s.day > days_in_month(s.year, month_number(s.mon))

\* datetime.strptime(date_str, "%A, %B %d, %Y").date(): the weekday name is matched
\* and dropped, the date is the month, the day and the year.
strptime_date(s) == ymd2ord(s.year, month_number(s.mon), s.day)

\* The body of the loop over rows: what one row adds to holidays.
row_dates(row) ==
    IF Len(row) < 2 THEN <<>>
    ELSE IF strptime_fails(clean_text(row[2])) THEN <<>>
         ELSE <<strptime_date(clean_text(row[2]))>>

RECURSIVE rows_dates(_)
rows_dates(rows) ==
    IF rows = <<>> THEN <<>> ELSE row_dates(Head(rows)) \o rows_dates(Tail(rows))

\* soup.find_all("td", data_label_="date") keeps an element: it is a td and its
\* attribute data_label_ is "date".
found(table) == table.tag = "td" /\ table.data_label_ = "date"

\* The body of the loop over the elements found, which the code names table: one
\* without a tbody is passed over.
table_dates(table) ==
    IF ~found(table) \/ ~table.tbody THEN <<>> ELSE rows_dates(table.rows)

RECURSIVE tables_dates(_)
tables_dates(tables) ==
    IF tables = <<>> THEN <<>>
    ELSE table_dates(Head(tables)) \o tables_dates(Tail(tables))

\* _get_holiday_delays, after the page is fetched
get_holiday_delays(p) == tables_dates(p.tables)

NoPage == [status |-> "none", tables |-> <<>>]

ErrorPage == [status |-> "error", tables |-> <<>>]

\* An element of the page: its tag, its attribute data_label_ ("" without one),
\* whether a tbody lies in it, and the rows of that tbody, each the sequence of its
\* cells.
Table(tag, data_label_, tbody, rows) ==
    [tag |-> tag, data_label_ |-> data_label_, tbody |-> tbody, rows |-> rows]

SeqsUpTo(S, n) == UNION {[1..k -> S] : k \in 0..n}

NameCell == Cell("Christmas Day", "", 0, 0, FALSE)

\* --- the pages of the schedule runs: one element that is found, with two-cell rows

HolidayCells ==
    { Cell("Monday",   "December", 25, Year0,     FALSE),
      Cell("Sunday",   "December", 31, Year0,     TRUE),
      Cell("Monday",   "January",   1, Year0 + 1, FALSE),
      Cell("Friday",   "February", 30, Year0 + 1, FALSE) }

HolidayPages ==
    { [status |-> "ok", tables |-> <<Table("td", "date", TRUE, rows)>>] :
        rows \in SeqsUpTo({<<NameCell, c>> : c \in HolidayCells}, MaxRows) }
    \cup {ErrorPage}

Todays == {ymd2ord(Year0, 12, 24) + i : i \in 0..TodaySpan}

\* ------------------------------------------------------------------ fetch

\* The holiday test of the loop body, lines 103-108.
holiday_in_week(c, hols) ==
    \E h \in SeqToSet(hols) : h <= c /\ h >= c - weekday_of(c)

\* The shift of the loop body, lines 109-111.
shifted_twice(c, hols) ==
    IF holiday_in_week(c, hols)
    THEN (IF c + 1 \in SeqToSet(hols) THEN c + 2 ELSE c + 1)
    ELSE c

shifted(c, hols) == IF holiday_in_week(c, hols) THEN c + 1 ELSE c

\* The emission test of the loop body, line 113.
emitted_nolimit(d, t, e) == t <= d

emitted(d, t, e) == t <= d /\ d <= e

\* Line 86.
future_of_strict(hols, t) == SelectSeq2(hols, {h \in SeqToSet(hols) : h > t})

future_of(hols, t) == SelectSeq2(hols, {h \in SeqToSet(hols) : h >= t})

\* Lines 93-94.
end_of_first(fut) == ymd2ord(year_of(fut[1]), 12, 31)

end_of(fut) == ymd2ord(SetMax({year_of(h) : h \in SeqToSet(fut)}), 12, 31)

\* Lines 81: holidays = self._get_holiday_delays(); requests.get and
\* raise_for_status let a transport error leave fetch.
GetHolidayDelays(pages) ==
    /\ pc = "holidays"
    /\ \E p \in pages :
         IF p.status = "error"
         THEN /\ pc' = "raised"
              /\ raised' = Raise("HTTPError", <<>>)
              /\ UNCHANGED <<page, holidays>>
         ELSE /\ pc' = "parsed"
              /\ page' = p
              /\ holidays' = get_holiday_delays(p)
              /\ UNCHANGED raised
    /\ UNCHANGED <<street, input_street, streets_dict, normal_pickup_day, today,
                   future_holidays, end_date, current_date, collection_date,
                   collections>>

\* Lines 82-98: today, future_holidays, the failure without a future holiday,
\* end_date and the start of the loop.
FilterFuture ==
    /\ pc = "parsed"
    /\ \E t \in Todays :
         /\ today' = t
         /\ future_holidays' = future_of(holidays, t)
         /\ IF future_of(holidays, t) = <<>>
            THEN /\ pc' = "raised"
                 /\ raised' = Raise("Exception", <<>>)
                 /\ UNCHANGED <<end_date, current_date>>
            ELSE /\ pc' = "loop"
                 /\ end_date' = end_of(future_of(holidays, t))
                 /\ current_date' = t
                 /\ UNCHANGED raised
    /\ page' = NoPage
    /\ collections' = <<>>
    /\ UNCHANGED <<street, input_street, streets_dict, normal_pickup_day, holidays,
                   collection_date>>

LoopStep_prepend ==
    /\ pc = "loop"
    /\ current_date <= end_date
    /\ LET d == shifted(next_weekday(current_date, normal_pickup_day), future_holidays)
       IN  /\ collection_date' = d
           /\ collections' = IF emitted(d, today, end_date)
                             THEN <<d>> \o collections ELSE collections
    /\ current_date' = current_date + 7
    /\ UNCHANGED <<pc, street, input_street, streets_dict, raised, normal_pickup_day,
                   page, holidays, today, future_holidays, end_date>>

\* Lines 99-118: one iteration of the loop.
LoopStep ==
    /\ pc = "loop"
    /\ current_date <= end_date
    /\ LET d == shifted(next_weekday(current_date, normal_pickup_day), future_holidays)
       IN  /\ collection_date' = d
           /\ collections' = IF emitted(d, today, end_date)
                             THEN Append(collections, d) ELSE collections
    /\ current_date' = current_date + 7
    /\ UNCHANGED <<pc, street, input_street, streets_dict, raised, normal_pickup_day,
                   page, holidays, today, future_holidays, end_date>>

\* Lines 99, 120-121: the loop ends and fetch returns collections.
Return ==
    /\ pc = "loop"
    /\ current_date > end_date
    /\ pc' = "done"
    /\ UNCHANGED <<street, input_street, streets_dict, raised, normal_pickup_day,
                   page, holidays, today, future_holidays, end_date, current_date,
                   collection_date, collections>>

\* fetch at line 81: the street has resolved to a weekday of WEEKDAY_MAP.
InitFetch ==
    /\ pc = "holidays"
    /\ street = [given |-> TRUE, text |-> <<"a", "b">>]
    /\ input_street = <<"a", "b">>
    /\ streets_dict = NoDict
    /\ raised = NoError
    /\ normal_pickup_day \in 0..6
    /\ page = NoPage
    /\ holidays = <<>>
    /\ today = NoDate
    /\ future_holidays = <<>>
    /\ end_date = NoDate
    /\ current_date = NoDate
    /\ collection_date = NoDate
    /\ collections = <<>>

NextFetch ==
    \/ GetHolidayDelays(HolidayPages)
    \/ FilterFuture
    \/ LoopStep
    \/ Return

\* The schedule: fetch from the resolved weekday to the returned list.
Spec == InitFetch /\ [][NextFetch]_vars

\* ------------------------------------------------ the holiday page parser

RECURSIVE Flatten(_)
Flatten(seqs) == IF seqs = <<>> THEN <<>> ELSE Head(seqs) \o Flatten(Tail(seqs))

GoodDate1 == Cell("Monday", "December", 25, Year0, FALSE)

GoodDate2 == Cell("Monday", "January", 1, Year0 + 1, TRUE)

\* A well-formed date under another day's name: Year0 + 1 is a leap year and its
\* February 29 is a Thursday.
GoodDate3 == Cell("Friday", "February", 29, Year0 + 1, FALSE)

BadDay == Cell("Wednesday", "February", 29, Year0, FALSE)

BadMonth == Cell("Monday", "Decembre", 25, Year0, FALSE)

ParserRows ==
    { <<>>, <<NameCell>>, <<GoodDate1>>, <<GoodDate1, NameCell>>,
      <<NameCell, GoodDate1>>, <<NameCell, GoodDate2>>,
      <<NameCell, GoodDate3, NameCell>>, <<NameCell, BadDay>>,
      <<NameCell, BadMonth>> }

\* What may stand before and after the holiday table: nothing, a td with another
\* data_label_, a table element with the attribute, a td with the attribute and
\* without a tbody, a second element that is found.
OtherTables ==
    { <<>>,
      <<Table("td", "holiday", TRUE, <<<<NameCell, GoodDate3>>>>)>>,
      <<Table("table", "date", TRUE, <<<<NameCell, GoodDate3>>>>)>>,
      <<Table("td", "date", FALSE, <<<<NameCell, GoodDate3>>>>)>>,
      <<Table("td", "date", TRUE, <<<<NameCell, GoodDate3>>>>)>> }

ParserPages ==
    { [status |-> "ok", tables |-> before \o <<Table("td", "date", TRUE, rows)>> \o after] :
        before \in OtherTables, after \in OtherTables,
        rows \in SeqsUpTo(ParserRows, MaxRows) }
    \cup {ErrorPage}

InitHolidays == InitFetch /\ normal_pickup_day = 0

NextHolidays == GetHolidayDelays(ParserPages)

\* The parser alone: _get_holiday_delays on pages with malformed rows and elements.
SpecHolidays == InitHolidays /\ [][NextHolidays]_vars

\* ------------------------------------------------ _next_weekday alone

StartFirst == ymd2ord(Year0 + 1, 2, 20)

\* fetch at lines 100-101, about to call _next_weekday.
InitNextWeekday ==
    /\ pc = "call"
    /\ street = [given |-> TRUE, text |-> <<"a", "b">>]
    /\ input_street = <<"a", "b">>
    /\ streets_dict = NoDict
    /\ raised = NoError
    /\ normal_pickup_day \in 0..6
    /\ page = NoPage
    /\ holidays = <<>>
    /\ today = NoDate
    /\ future_holidays = <<>>
    /\ end_date = NoDate
    /\ current_date \in StartFirst..(StartFirst + StartSpan)
    /\ collection_date = NoDate
    /\ collections = <<>>

NextWeekdayCall ==
    /\ pc = "call"
    /\ pc' = "ret"
    /\ collection_date' = next_weekday(current_date, normal_pickup_day)
    /\ UNCHANGED <<street, input_street, streets_dict, raised, normal_pickup_day,
                   page, holidays, today, future_holidays, end_date, current_date,
                   collections>>

\* The calls of _next_weekday alone, over a range of start dates.
SpecNextWeekday == InitNextWeekday /\ [][NextWeekdayCall]_vars

\* ------------------------------------------------------------- strings

Lower(ch) == CASE ch = "A" -> "a" [] ch = "B" -> "b" [] ch = "C" -> "c" [] OTHER -> ch

\* str.lower()
lower(s) == [i \in 1..Len(s) |-> Lower(s[i])]

IsSpace(ch) == ch = " "

RECURSIVE lstrip(_)
lstrip(s) == IF s # <<>> /\ IsSpace(Head(s)) THEN lstrip(Tail(s)) ELSE s

RECURSIVE rstrip(_)
rstrip(s) ==
    IF s # <<>> /\ IsSpace(s[Len(s)]) THEN rstrip(SubSeq(s, 1, Len(s) - 1)) ELSE s

\* str.strip()
strip(s) == rstrip(lstrip(s))

\* The code point of a character, for the order of str.
CodePoint(ch) ==
    CASE ch = " " -> 32 [] ch = "(" -> 40 [] ch = ")" -> 41
      [] ch = "A" -> 65 [] ch = "B" -> 66 [] ch = "C" -> 67
      [] ch = "a" -> 97 [] ch = "b" -> 98 [] ch = "c" -> 99

RECURSIVE str_less(_, _)
\* s < t for two str values
str_less(s, t) ==
    IF t = <<>> THEN FALSE
    ELSE IF s = <<>> THEN TRUE
    ELSE IF Head(s) # Head(t) THEN CodePoint(Head(s)) < CodePoint(Head(t))
    ELSE str_less(Tail(s), Tail(t))

\* ------------------------------------------------ difflib.get_close_matches

Min(x, y) == IF x <= y THEN x ELSE y

\* SequenceMatcher.find_longest_match(alo, ahi, blo, bhi) without junk: the longest
\* block a[i:i+k] == b[j:j+k] within the ranges, of those the one that starts
\* earliest in a, and of those the one that starts earliest in b; <<alo, blo, 0>>
\* when no element matches.  Indices are Python's (from 0, the end excluded).
find_longest_match(a, b, alo, ahi, blo, bhi) ==
    LET blocks == {t \in (alo..(ahi - 1)) \X (blo..(bhi - 1)) \X (1..Min(ahi - alo, bhi - blo)) :
                     /\ t[1] + t[3] <= ahi
                     /\ t[2] + t[3] <= bhi
                     /\ \A d \in 0..(t[3] - 1) : a[t[1] + d + 1] = b[t[2] + d + 1]}
    IN  IF blocks = {} THEN <<alo, blo, 0>>
        ELSE CHOOSE t \in blocks :
                 \A u \in blocks :
                     \/ u[3] < t[3]
                     \/ u[3] = t[3] /\ t[1] < u[1]
                     \/ u[3] = t[3] /\ t[1] = u[1] /\ t[2] <= u[2]

RECURSIVE matches(_, _, _, _, _, _)
\* The sum of the sizes of get_matching_blocks(), over a[alo:ahi] and b[blo:bhi].
matches(a, b, alo, ahi, blo, bhi) ==
    LET m == find_longest_match(a, b, alo, ahi, blo, bhi)
        i == m[1]
        j == m[2]
        k == m[3]
    IN  IF k = 0 THEN 0
        ELSE k + (IF alo < i /\ blo < j THEN matches(a, b, alo, i, blo, j) ELSE 0)
               + (IF i + k < ahi /\ j + k < bhi
                  THEN matches(a, b, i + k, ahi, j + k, bhi) ELSE 0)

\* SequenceMatcher.ratio() is 2.0 * ratio_matches / ratio_length.
ratio_matches(a, b) == matches(a, b, 0, Len(a), 0, Len(b))

ratio_length(a, b) == Len(a) + Len(b)

Count(s, ch) == Cardinality({i \in 1..Len(s) : s[i] = ch})

\* SequenceMatcher.quick_ratio() is 2.0 * quick_matches / ratio_length.
quick_matches(a, b) ==
    LET chars == SeqToSet(a) \cup SeqToSet(b)
        RECURSIVE Sum(_)
        Sum(S) == IF S = {} THEN 0
                  ELSE LET ch == CHOOSE ch \in S : TRUE
                       IN  Min(Count(a, ch), Count(b, ch)) + Sum(S \ {ch})
    IN  Sum(chars)

\* SequenceMatcher.real_quick_ratio() is 2.0 * real_quick_matches / ratio_length.
real_quick_matches(a, b) == Min(Len(a), Len(b))

\* cutoff=0.7 of line 137, in tenths.
CUTOFF_TENTHS == 7

\* n=5 of line 137.
CLOSE_MATCHES_N == 5

\* The slice [:10] of line 188.
SUGGESTIONS_LIMIT == 10

\* 2.0 * m / length >= cutoff; a pair of empty sequences has ratio 1.0.
at_least_cutoff(m, length) ==
    IF length = 0 THEN TRUE ELSE 2 * m * 10 >= CUTOFF_TENTHS * length

\* The test of get_close_matches on one possibility x: a is x, b is the word.
close_enough(x, word) ==
    /\ at_least_cutoff(real_quick_matches(x, word), ratio_length(x, word))
    /\ at_least_cutoff(quick_matches(x, word), ratio_length(x, word))
    /\ at_least_cutoff(ratio_matches(x, word), ratio_length(x, word))

\* (score, x) < (score', y) for the tuples get_close_matches ranks.
scored_less(x, y, word) ==
    LET mx == ratio_matches(x, word) * ratio_length(y, word)
        my == ratio_matches(y, word) * ratio_length(x, word)
    IN  mx < my \/ (mx = my /\ str_less(x, y))

RECURSIVE nlargest(_, _, _)
\* heapq.nlargest(n, result): the n greatest tuples, the greatest first.
nlargest(n, xs, word) ==
    IF n <= 0 \/ xs = {} THEN <<>>
    ELSE LET best == CHOOSE x \in xs : \A y \in xs : y = x \/ scored_less(y, x, word)
         IN  <<best>> \o nlargest(n - 1, xs \ {best}, word)

get_close_matches_nocap(word, possibilities, n) ==
    nlargest(Len(possibilities),
             {x \in SeqToSet(possibilities) : close_enough(x, word)}, word)

\* difflib.get_close_matches(word, possibilities, n, cutoff=0.7)
get_close_matches(word, possibilities, n) ==
    nlargest(n, {x \in SeqToSet(possibilities) : close_enough(x, word)}, word)

\* ------------------------------------------------- the street directory

WEEKDAY_MAP ==
    [MONDAY |-> 0, TUESDAY |-> 1, WEDNESDAY |-> 2, THURSDAY |-> 3, FRIDAY |-> 4,
     SATURDAY |-> 5, SUNDAY |-> 6]

\* str.upper() on the day tokens of the pages.
upper(tok) ==
    CASE tok = "Tuesday" -> "TUESDAY"
      [] tok = "wednesday" -> "WEDNESDAY"
      [] tok = "Holiday" -> "HOLIDAY"
      [] OTHER -> tok

\* A dict as the sequence of its (key, value) pairs in insertion order.
DictKeys(items) == [i \in 1..Len(items) |-> items[i].key]

DictHas(items, key) == \E i \in 1..Len(items) : items[i].key = key

DictGet(items, key) == items[CHOOSE i \in 1..Len(items) : items[i].key = key].value

\* streets_dict[key] = value: a present key keeps its place.
DictSet(items, key, value) ==
    IF DictHas(items, key)
    THEN [i \in 1..Len(items) |->
            IF items[i].key = key THEN [key |-> key, value |-> value] ELSE items[i]]
    ELSE Append(items, [key |-> key, value |-> value])

\* A list item of the street page.  text is what precedes the last " - " of an item
\* without a nested list (the whole text when sep is FALSE), and what precedes the
\* first ":" of an item with one; day is what follows the " - "; subs are the
\* items of the nested list, each [text, sep, day].
Li(text, sep, day) ==
    [text |-> text, sep |-> sep, day |-> day, nested |-> FALSE, colon |-> FALSE,
     subs |-> <<>>]

NestedLi(text, colon, subs) ==
    [text |-> text, sep |-> FALSE, day |-> "", nested |-> TRUE, colon |-> colon,
     subs |-> subs]

Sub(text, sep, day) == [text |-> text, sep |-> sep, day |-> day]

RECURSIVE parse_segments(_, _, _)
\* Lines 225-245: the segments of a multi-segment street.
parse_segments(streets, main_street, subs) ==
    IF subs = <<>> THEN streets
    ELSE LET sub   == Head(subs)
             key   == main_street \o <<" ", "(">> \o strip(lower(sub.text)) \o <<")">>
             token == upper(sub.day)
         IN  parse_segments(
                 IF sub.sep /\ token \in DOMAIN WEEKDAY_MAP
                 THEN DictSet(streets, key, WEEKDAY_MAP[token]) ELSE streets,
                 main_street, Tail(subs))

\* Lines 204-268: one list item.
parse_li(streets, li) ==
    IF li.nested
    THEN IF li.colon THEN parse_segments(streets, strip(lower(li.text)), li.subs)
         ELSE streets
    ELSE IF li.sep /\ upper(li.day) \in DOMAIN WEEKDAY_MAP
         THEN DictSet(streets, strip(lower(li.text)), WEEKDAY_MAP[upper(li.day)])
         ELSE streets

RECURSIVE parse_lis(_, _)
parse_lis(streets, lis) ==
    IF lis = <<>> THEN streets ELSE parse_lis(parse_li(streets, Head(lis)), Tail(lis))

RECURSIVE parse_uls(_, _)
parse_uls(streets, uls) ==
    IF uls = <<>> THEN streets ELSE parse_uls(parse_lis(streets, Head(uls)), Tail(uls))

\* _parse_streets(uls)
parse_streets(uls) == parse_uls(<<>>, uls)

\* _load_streets_dict: None on a transport error and on a page without a list.
load_streets_dict(p) ==
    IF p.status = "error" \/ p.uls = <<>> THEN NoDict
    ELSE [none |-> FALSE, items |-> parse_streets(p.uls)]

\* if streets_dict / if not streets_dict
Truthy(d) == ~d.none /\ d.items # <<>>

load_street_suggestions_noslice(d) == IF Truthy(d) THEN DictKeys(d.items) ELSE <<>>

\* _load_street_suggestions; <<>> stands for None.
load_street_suggestions(d) ==
    IF Truthy(d)
    THEN SubSeq(DictKeys(d.items), 1, Min(SUGGESTIONS_LIMIT, Len(d.items)))
    ELSE <<>>

Returned(value) == [value |-> value, exc |-> NoError]

Raised(kind, suggestions) == [value |-> -1, exc |-> Raise(kind, suggestions)]

get_normal_pickup_day_noexact(word, d) ==
    IF ~Truthy(d) THEN Raised("SourceArgumentNotFound", <<>>)
    ELSE LET fuzzy_matches == get_close_matches(word, DictKeys(d.items), CLOSE_MATCHES_N)
         IN  IF Len(fuzzy_matches) = 1 THEN Returned(DictGet(d.items, fuzzy_matches[1]))
             ELSE IF Len(fuzzy_matches) > 1
             THEN Raised("SourceArgAmbiguousWithSuggestions", fuzzy_matches)
             ELSE Raised("SourceArgumentNotFoundWithSuggestions", DictKeys(d.items))

\* _get_normal_pickup_day on the loaded directory d: the weekday, or the exception.
get_normal_pickup_day(word, d) ==
    IF ~Truthy(d) THEN Raised("SourceArgumentNotFound", <<>>)
    ELSE IF DictHas(d.items, word) THEN Returned(DictGet(d.items, word))
    ELSE LET fuzzy_matches == get_close_matches(word, DictKeys(d.items), CLOSE_MATCHES_N)
         IN  IF Len(fuzzy_matches) = 1 THEN Returned(DictGet(d.items, fuzzy_matches[1]))
             ELSE IF Len(fuzzy_matches) > 1
             THEN Raised("SourceArgAmbiguousWithSuggestions", fuzzy_matches)
             ELSE Raised("SourceArgumentNotFoundWithSuggestions", DictKeys(d.items))

\* Lines 57-71: Source(street).
Construct(streets, pages) ==
    /\ pc = "new"
    /\ \E st \in streets :
         /\ street' = st
         /\ IF ~st.given \/ st.text = <<>> \/ strip(st.text) = <<>>
            THEN \E p \in pages :
                   LET d           == load_streets_dict(p)
                       suggestions == load_street_suggestions(d)
                   IN  /\ streets_dict' = d
                       /\ raised' = IF suggestions # <<>>
                                    THEN Raise("SourceArgumentRequiredWithSuggestions",
                                               suggestions)
                                    ELSE Raise("SourceArgumentRequired", <<>>)
                       /\ pc' = "raised"
                       /\ UNCHANGED input_street
            ELSE /\ input_street' = strip(lower(st.text))
                 /\ pc' = "ready"
                 /\ UNCHANGED <<streets_dict, raised>>
    /\ UNCHANGED <<normal_pickup_day, page, holidays, today, future_holidays, end_date,
                   current_date, collection_date, collections>>

\* Lines 73-78: fetch resolves the street to its weekday, or raises.
FetchMatch(pages) ==
    /\ pc = "ready"
    /\ \E p \in pages :
         LET d == load_streets_dict(p)
             r == get_normal_pickup_day(input_street, d)
         IN  /\ streets_dict' = d
             /\ IF r.exc # NoError
                THEN /\ pc' = "raised"
                     /\ raised' = r.exc
                     /\ UNCHANGED normal_pickup_day
                ELSE IF r.value = -1
                THEN /\ pc' = "raised"
                     /\ raised' = Raise("SourceArgumentNotFound", <<>>)
                     /\ UNCHANGED normal_pickup_day
                ELSE /\ pc' = "holidays"
                     /\ normal_pickup_day' = r.value
                     /\ UNCHANGED raised
    /\ UNCHANGED <<street, input_street, page, holidays, today, future_holidays,
                   end_date, current_date, collection_date, collections>>

\* --- the street arguments and the street pages of the matching runs

StreetArgs ==
    { NoStreet,
      [given |-> TRUE, text |-> <<>>],
      [given |-> TRUE, text |-> <<" ", " ">>],
      [given |-> TRUE, text |-> <<"a", "b", "c">>],
      [given |-> TRUE, text |-> <<" ", "A", "b", "C", " ">>],
      [given |-> TRUE, text |-> <<"C", "c", "c", " ">>] }

\* The streets of the roster, each listed "<street> - <DAY>".
Roster ==
    << <<"a", "b", "c">>, <<"a", "b">>, <<"a", "c">>, <<"b", "c">>,
       <<"a", "a", "b", "c">>, <<"a", "b", "b", "c">>, <<"a", "b", "c", "c">>,
       <<"c", "a", "b", "c">>, <<"c", "c">>, <<"c">>, <<"b">> >>

RosterDays ==
    <<"MONDAY", "Tuesday", "wednesday", "THURSDAY", "FRIDAY", "SATURDAY", "SUNDAY">>

RosterLi(i) == Li(Roster[i], TRUE, RosterDays[(i % 7) + 1])

RECURSIVE RosterLis(_, _)
\* The items of the roster streets in S, from street i on, in roster order.
RosterLis(i, S) ==
    IF i > Len(Roster) THEN <<>>
    ELSE (IF i \in S THEN <<RosterLi(i)>> ELSE <<>>) \o RosterLis(i + 1, S)

StreetPage(uls) == [status |-> "ok", uls |-> uls]

\* Every sub-list of the roster as a page of one list.
RosterPages == {StreetPage(<<RosterLis(1, S)>>) : S \in SUBSET (1..Len(Roster))}

\* Pages with what the parser skips or rewrites: a transport error, no list, items
\* without a day, unknown days, names to normalise, a street listed twice, and
\* multi-segment streets.
OddPages ==
    { [status |-> "error", uls |-> <<>>],
      StreetPage(<<>>),
      StreetPage(<< <<Li(<<"a", "b">>, FALSE, ""), Li(<<"a", "c">>, TRUE, "Holiday")>> >>),
      StreetPage(<< <<Li(<<" ", "A", "B", "c">>, TRUE, "FRIDAY")>>,
                    <<Li(<<"c", "c">>, TRUE, "MONDAY"), Li(<<"a", "b", "c">>, TRUE, "SUNDAY"),
                      Li(<<"C", "C">>, TRUE, "Tuesday")>> >>),
      StreetPage(<< <<NestedLi(<<"A", "b">>, TRUE,
                               <<Sub(<<"a", " ">>, TRUE, "MONDAY"),
                                 Sub(<<"b">>, FALSE, ""),
                                 Sub(<<"c">>, TRUE, "Holiday"),
                                 Sub(<<"C">>, TRUE, "wednesday")>>),
                      NestedLi(<<"b", "c">>, FALSE, <<Sub(<<"a">>, TRUE, "MONDAY")>>),
                      Li(<<"c", "c">>, TRUE, "THURSDAY")>> >>) }

StreetPages == RosterPages \cup OddPages

InitMatch ==
    /\ pc = "new"
    /\ street = NoStreet
    /\ input_street = <<>>
    /\ streets_dict = NoDict
    /\ raised = NoError
    /\ normal_pickup_day = -1
    /\ page = NoPage
    /\ holidays = <<>>
    /\ today = NoDate
    /\ future_holidays = <<>>
    /\ end_date = NoDate
    /\ current_date = NoDate
    /\ collection_date = NoDate
    /\ collections = <<>>

NextMatch ==
    \/ Construct(StreetArgs, StreetPages)
    \/ FetchMatch(StreetPages)

\* The street: Source(street) and the lookup that opens fetch.
SpecMatch == InitMatch /\ [][NextMatch]_vars

\* ------------------------------------------------------------ the claims

\* The future holidays, from the holiday list and today.
FutureSet == {h \in SeqToSet(holidays) : h >= today}

\* December 31 of the greatest year among the future holidays.
HorizonEnd ==
    LET years == {year_of(h) : h \in FutureSet}
        y     == CHOOSE y \in years : \A z \in years : z <= y
    IN  ymd2ord(y, 12, 31)

\* The first date on or after anchor whose weekday is the resolved weekday.
FirstOnOrAfter(anchor) ==
    CHOOSE c \in anchor..(anchor + 6) : weekday_of(c) = normal_pickup_day

\* A future holiday lies between the Monday of c's week and c.
HolidayInSpan(c) == \E h \in FutureSet : c - weekday_of(c) <= h /\ h <= c

Looping == pc \in {"loop", "done"}

\* C1: the date a weekly step considers is c + 1 when a future holiday lies between
\* the Monday of c's week and c, and c otherwise, c being the first date on or after
\* the step's anchor today + 7k that falls on the resolved weekday; the steps are
\* those with an anchor up to end_date, and the shift is one day whatever the
\* holidays are.
C1_OneDayShift ==
    Looping =>
        /\ (current_date - today) % 7 = 0
        /\ current_date >= today
        /\ current_date - 7 <= HorizonEnd
        /\ pc = "done" => current_date > HorizonEnd
        /\ current_date > today =>
             LET c == FirstOnOrAfter(current_date - 7)
             IN  collection_date = IF HolidayInSpan(c) THEN c + 1 ELSE c

\* C1 witness: a step shifted a date by one day with two holidays in its span and
\* with the shifted date a holiday itself.
C1_Witness ==
    /\ Looping
    /\ current_date > today
    /\ LET c == FirstOnOrAfter(current_date - 7)
       IN  /\ collection_date = c + 1
           /\ c + 1 \in FutureSet
           /\ Cardinality({h \in FutureSet : c - weekday_of(c) <= h /\ h <= c}) >= 2

\* The occurrences of the resolved weekday from today to e, the end of the horizon.
Occurrences(e) == {c \in today..e : weekday_of(c) = normal_pickup_day}

RecordsFor(c) == {i \in DOMAIN collections : collections[i] \in {c, c + 1}}

\* C4 as stated: every occurrence of the weekday in the range has exactly one record,
\* dated c or c + 1, and every record belongs to an occurrence.
C4_OnePerWeek ==
    pc = "done" =>
        LET occ == Occurrences(HorizonEnd)
        IN  /\ \A c \in occ : Cardinality(RecordsFor(c)) = 1
            /\ \A i \in DOMAIN collections : \E c \in occ : collections[i] \in {c, c + 1}

\* C4 amended: every occurrence of the weekday in the range has exactly one record,
\* dated c + 1 when a future holiday lies in its span and c otherwise, except the
\* occurrence whose shifted date passes end_date, which has none; every record
\* belongs to an occurrence.
C4_OnePerWeekInRange ==
    pc = "done" =>
        LET e   == HorizonEnd
            occ == Occurrences(e)
        IN  /\ \A c \in occ :
                 LET d == IF HolidayInSpan(c) THEN c + 1 ELSE c
                 IN  IF d > e
                     THEN RecordsFor(c) = {}
                     ELSE /\ Cardinality(RecordsFor(c)) = 1
                          /\ \A i \in RecordsFor(c) : collections[i] = d
            /\ \A i \in DOMAIN collections : \E c \in occ : collections[i] \in {c, c + 1}

\* C4 witness: fetch returned a list with a record for one occurrence and none for
\* the occurrence on end_date, whose shifted date is after end_date.
C4_Witness ==
    /\ pc = "done"
    /\ collections # <<>>
    /\ HolidayInSpan(HorizonEnd)
    /\ HorizonEnd \in Occurrences(HorizonEnd)
    /\ RecordsFor(HorizonEnd) = {}

Settled == pc \in {"loop", "done", "raised"} /\ today # NoDate

\* C5: without a holiday on or after today fetch raises the generic exception and
\* returns no record; with one, a holiday dated today included, it does not.
C5_NoFutureHoliday ==
    Settled =>
        IF FutureSet = {}
        THEN pc = "raised" /\ raised.kind = "Exception" /\ collections = <<>>
        ELSE pc \in {"loop", "done"} /\ raised = NoError

\* C5 witness: fetch raised the generic exception on a holiday list that holds
\* past holidays only.
C5_Witness ==
    /\ pc = "raised"
    /\ raised.kind = "Exception"
    /\ holidays # <<>>
    /\ \A h \in SeqToSet(holidays) : h < today

\* C6: every record is dated from today to December 31 of the greatest year among
\* the future holidays, the shifted ones too.
C6_WithinRange ==
    Looping =>
        LET e == HorizonEnd
        IN  /\ end_date = e
            /\ \A i \in DOMAIN collections : today <= collections[i] /\ collections[i] <= e

\* C6 witness: the last step shifted December 31 past end_date and fetch returned
\* a list of records without the shifted date.
C6_Witness ==
    /\ pc = "done"
    /\ collections # <<>>
    /\ collection_date > HorizonEnd
    /\ collection_date - 1 <= HorizonEnd
    /\ HolidayInSpan(collection_date - 1)

\* C7: the records are in non-decreasing order of date.
C7_NonDecreasing ==
    Looping =>
        \A i \in DOMAIN collections :
            i + 1 \in DOMAIN collections => collections[i] <= collections[i + 1]

\* C7 witness: a returned list of over fifty records with a shifted date in it.
C7_Witness ==
    /\ pc = "done"
    /\ Len(collections) > 50
    /\ \E i \in DOMAIN collections : weekday_of(collections[i]) # normal_pickup_day

\* --- the street

RequiredKinds == {"SourceArgumentRequired", "SourceArgumentRequiredWithSuggestions"}

\* The lookup of fetch has ended: it resolved the street or it raised.
AfterLookup == pc = "holidays" \/ (pc = "raised" /\ raised.kind \notin RequiredKinds)

DirectoryKeys == {streets_dict.items[i].key : i \in DOMAIN streets_dict.items}

\* The weekdays the directory maps key to.
WeekdaysOf(key) ==
    {streets_dict.items[i].value :
        i \in {j \in DOMAIN streets_dict.items : streets_dict.items[j].key = key}}

\* The similarity ratio of key and the input street is at least 0.7.
WithinCutoff(key) ==
    10 * 2 * ratio_matches(key, input_street) >= 7 * ratio_length(key, input_street)

CandidateKeys == {k \in DirectoryKeys : WithinCutoff(k)}

\* key ranks no higher than other: its ratio is no greater.
RanksNoHigher(key, other) ==
    ratio_matches(key, input_street) * ratio_length(other, input_street)
        <= ratio_matches(other, input_street) * ratio_length(key, input_street)

\* C2: on a non-empty directory the lookup returns a weekday exactly when the input
\* is a key, and then that key's weekday whatever else is within the cutoff, or when
\* the input is no key and one key alone is within the cutoff, and then that key's
\* weekday; a returned weekday is the weekday of some key.
C2_StreetMatching ==
    (AfterLookup /\ Truthy(streets_dict)) =>
        LET cands == CandidateKeys
            exact == input_street \in DirectoryKeys
        IN  /\ pc = "holidays" <=> (exact \/ Cardinality(cands) = 1)
            /\ (pc = "holidays" /\ exact) =>
                   WeekdaysOf(input_street) = {normal_pickup_day}
            /\ (pc = "holidays" /\ ~exact) =>
                   \E k \in cands : cands = {k} /\ WeekdaysOf(k) = {normal_pickup_day}
            /\ pc = "holidays" =>
                   \E k \in DirectoryKeys : normal_pickup_day \in WeekdaysOf(k)
            /\ pc = "raised" => normal_pickup_day = -1

\* C2 witness: the input is no key of a directory of several keys, one key alone is
\* within the cutoff, and the lookup returned its weekday.
C2_Witness ==
    /\ pc = "holidays"
    /\ Cardinality(DirectoryKeys) >= 3
    /\ input_street \notin DirectoryKeys
    /\ Cardinality(CandidateKeys) = 1

\* C3: the lookup fails with the plain not-found condition and no suggestions when
\* the directory is None or empty; with the ambiguous condition when the input is
\* no key and two or more keys are within the cutoff, its payload being those keys,
\* and the five that rank highest when they are more than five; with not found with
\* suggestions, carrying every key in directory order, when the input is no key and
\* no key is within the cutoff.  A failed lookup leaves no weekday and no record.
C3_LookupFailures ==
    AfterLookup =>
        LET cands   == CandidateKeys
            exact   == input_street \in DirectoryKeys
            payload == SeqToSet(raised.suggestions)
        IN  /\ ~Truthy(streets_dict) =>
                 pc = "raised" /\ raised = Raise("SourceArgumentNotFound", <<>>)
            /\ (Truthy(streets_dict) /\ ~exact /\ Cardinality(cands) >= 2) =>
                 /\ pc = "raised"
                 /\ raised.kind = "SourceArgAmbiguousWithSuggestions"
                 /\ payload \subseteq cands
                 /\ Len(raised.suggestions) = Cardinality(payload)
                 /\ Cardinality(payload) = Min(Cardinality(cands), 5)
                 /\ \A x \in cands \ payload : \A y \in payload : RanksNoHigher(x, y)
            /\ (Truthy(streets_dict) /\ ~exact /\ cands = {}) =>
                 /\ pc = "raised"
                 /\ raised = Raise("SourceArgumentNotFoundWithSuggestions",
                                   [i \in DOMAIN streets_dict.items |->
                                       streets_dict.items[i].key])
            /\ pc = "raised" => normal_pickup_day = -1 /\ collections = <<>>

\* C3 witness: the ambiguous condition raised with more than five keys within the
\* cutoff, of two different ratios.
C3_Witness ==
    /\ pc = "raised"
    /\ raised.kind = "SourceArgAmbiguousWithSuggestions"
    /\ Cardinality(CandidateKeys) > 5
    /\ \E x \in CandidateKeys : \E y \in CandidateKeys : ~RanksNoHigher(y, x)

\* The street argument is None, empty or whitespace only.
BlankStreet == ~street.given \/ \A i \in DOMAIN street.text : street.text[i] = " "

\* The street argument without the whitespace around it, in lower case.
TrimmedLower ==
    LET inked == {i \in DOMAIN street.text : street.text[i] # " "}
        first == CHOOSE i \in inked : \A j \in inked : i <= j
        last  == CHOOSE i \in inked : \A j \in inked : j <= i
    IN  [i \in 1..(last - first + 1) |->
            LET ch == street.text[first + i - 1]
            IN  IF ch \in {"A", "B", "C"}
                THEN (CHOOSE l \in {"a", "b", "c"} : CodePoint(l) = CodePoint(ch) + 32)
                ELSE ch]

\* C9: a street that is None, empty or whitespace only yields no instance: the
\* constructor raises argument required with the first keys of the directory, ten at
\* most, when the directory loads with an entry, and the bare argument required
\* otherwise; any other street yields an instance that stores it trimmed and in
\* lower case.
C9_Constructor ==
    pc # "new" =>
        IF BlankStreet
        THEN /\ pc = "raised"
             /\ IF ~streets_dict.none /\ Len(streets_dict.items) >= 1
                THEN raised = Raise("SourceArgumentRequiredWithSuggestions",
                                    [i \in 1..Min(10, Len(streets_dict.items)) |->
                                        streets_dict.items[i].key])
                ELSE raised = Raise("SourceArgumentRequired", <<>>)
        ELSE /\ raised.kind \notin RequiredKinds
             /\ input_street = TrimmedLower

\* C9 witness: the constructor raised on a blank street with ten suggestions out of
\* a directory of more than ten keys.
C9_Witness ==
    /\ pc = "raised"
    /\ raised.kind = "SourceArgumentRequiredWithSuggestions"
    /\ Len(streets_dict.items) > 10
    /\ Len(raised.suggestions) = 10

\* --- the holiday page

\* The element carries the holiday marker: a td whose data_label_ is "date".
HasMarker(t) == t.tag = "td" /\ t.data_label_ = "date"

WellFormed(cell) ==
    /\ cell.wd \in WeekdayNames
    /\ \E m \in 1..12 :
         /\ MonthNames[m] = cell.mon
         /\ cell.year \in 1..9999
         /\ cell.day \in 1..days_in_month(cell.year, m)

GoodRow(row) == Len(row) >= 2 /\ WellFormed(row[2])

DateOf(cell) ==
    LET m == CHOOSE m \in 1..12 : MonthNames[m] = cell.mon
    IN  ymd2ord(cell.year, m, cell.day)

\* The dates of a marked element's body rows with a well-formed second cell, in order.
BodyDates(t) ==
    LET good == IF t.tbody THEN SelectSeq(t.rows, GoodRow) ELSE <<>>
    IN  [i \in 1..Len(good) |-> DateOf(good[i][2])]

C10_NextWeekday ==
    pc = "ret" =>
        /\ collection_date >= current_date
        /\ weekday_of(collection_date) = normal_pickup_day
        /\ collection_date - current_date \in 0..6
        /\ weekday_of(current_date) = normal_pickup_day
             => collection_date = current_date

\* C10 witness: a call whose target weekday is earlier in the week than start's.
C10_Witness ==
    /\ pc = "ret"
    /\ normal_pickup_day < weekday_of(current_date)
    /\ collection_date - current_date = 7 - (weekday_of(current_date) - normal_pickup_day)

====
